---- MODULE Spec2Model ----
(***************************************************************************)
(* State-machine model of RAG_PDF_READER:                                  *)
(*   utils/pdf_processing.py        chunk_text_by_tokens                   *)
(*   embeddings/generate_embeddings.py  process_single_pdf                 *)
(*   retriever/query_retriever.py   retrieve_top_k_chunks                  *)
(*   app/api.py                     document_cache, process_questions      *)
(*   app/rag_pipeline.py            process_api_request                    *)
(*   llm/answer_generator.py        interactive_qa                         *)
(* The repository has several entry points (the API server, the pipeline   *)
(* function, the interactive loop, and the library functions called on     *)
(* their own); a run of the model is a run of one of them, named by the    *)
(* variable entry.                                                         *)
(***************************************************************************)
EXTENDS Integers, Sequences, FiniteSets, TLC

\* ------------------------------------------------------------------ bounds
\* longest token sequence handed to chunk_text_by_tokens
MaxTokens == 4
\* largest chunk_size / overlap argument tried
MaxChunkArg == 3

\* most rows in a metadata table handed to retrieve_top_k_chunks
MaxChunks == 3
\* largest k asked of retrieve_top_k_chunks
MaxK == 4

\* most questions in one request
MaxQuestions == 4
\* most chunks of a downloaded document
MaxDocChunks == 2

\* most requests sent to the API server in a run
MaxRequests == 2
\* most questions in one API request
MaxApiQuestions == 2
\* most lines read by one interactive_qa session
MaxInputs == 5

\* iterations of the chunking loop the model follows; a call with
\* chunk_size > overlap needs at most MaxTokens of them
MaxIter == MaxTokens + 2

\* ------------------------------------------------------------------ helpers
Min(a, b) == IF a < b THEN a ELSE b

Max(a, b) == IF a > b THEN a ELSE b

\* ceil(a / b) for a >= 0, b > 0
CeilDiv(a, b) == (a + b - 1) \div b

\* Python's s[start:end] on a list s (0-based, negative positions count from
\* the end, both positions clamped to 0..len(s)); the result is the elements
\* at 0-based positions lo..hi-1.
PyClamp(i, n) == IF i < 0 THEN Max(i + n, 0) ELSE Min(i, n)

PySlice(s, start, end) ==
    LET lo == PyClamp(start, Len(s))
        hi == PyClamp(end, Len(s))
    IN  IF hi <= lo THEN << >> ELSE SubSeq(s, lo + 1, hi)

VARIABLES
    entry,          \* which entry point of the repository this run executes
    ck_pc,          \* chunk_text_by_tokens: "idle", "loop", "done"
    ck_tokens,      \* tokens = tokenizer.encode(text)
    ck_size,        \* chunk_size
    ck_overlap,     \* overlap
    ck_start,       \* start
    ck_chunks,      \* chunks (each chunk kept as its token window)
    rt_pc,          \* retrieve_top_k_chunks called on its own: "idle", "done"
    rt_args,        \* the arguments of that call
    rt_result,      \* what the call returned or raised
    pl_pc,          \* process_api_request: "idle", "done", "raised"
    pl_questions,   \* questions
    pl_doc,         \* what create_index_from_url returned or raised
    final_answers,  \* the list process_api_request returned
    pl_retrievals,  \* history: the retrieve_top_k_chunks calls of the request
    pl_generations, \* history: its generate_answer_with_gpt calls
    qa_pc,          \* interactive_qa: "idle", "prompt", "exited", "TypeError"
    qa_doc,         \* (index, metadata) of load_faiss_and_metadata
    qa_inputs,      \* lines read so far
    qa_chat_history,\* chat_history
    document_cache, \* api.py document_cache: URL -> (index, chunks)
    api_req,        \* the requests received so far, in arrival order
    api_resp,       \* request -> its response (NoResp while it is in flight),
                    \* with the messages of its generation calls
    api_overlap,    \* history: pairs of requests for the same URL that were
                    \* in flight together while the URL was not cached
    api_next_id,    \* one more than the builds run so far; a build that
                    \* succeeds gives its (index, chunks) tuple this identity
    api_running     \* the request whose handler the event loop is running
                    \* (0: none)

ck_vars == <<ck_pc, ck_tokens, ck_size, ck_overlap, ck_start, ck_chunks>>

rt_vars == <<rt_pc, rt_args, rt_result>>

pl_vars == <<pl_pc, pl_questions, pl_doc, final_answers, pl_retrievals,
             pl_generations>>

qa_vars == <<qa_pc, qa_doc, qa_inputs, qa_chat_history>>

api_vars == <<document_cache, api_req, api_resp, api_overlap, api_next_id,
              api_running>>

vars == <<entry, ck_vars, rt_vars, pl_vars, qa_vars, api_vars>>

Entries == {"chunk", "retrieve", "pipeline", "qa", "api"}

\* ---------------------------------------------- utils/pdf_processing.py
\* tokens[start:end] with end = start + chunk_size  (lines 64-65)
ChunkWindow(tokens, start, chunk_size) ==
    PySlice(tokens, start, start + chunk_size)

\* a chunker that forgets the overlap when it advances
ChunkNextStartNoOverlap(start, chunk_size, overlap) == start + chunk_size

\* start += chunk_size - overlap  (line 68)
ChunkNextStart(start, chunk_size, overlap) == start + chunk_size - overlap

\* the call: tokenize, chunks = [], start = 0  (lines 57-61).  A text of n
\* tokens is the token sequence 1..n, so a window names its own position.
ChunkCall(n, cs, ov) ==
    /\ entry = "chunk"
    /\ ck_pc = "idle"
    /\ ck_pc' = "loop"
    /\ ck_tokens' = [i \in 1..n |-> i]
    /\ ck_size' = cs
    /\ ck_overlap' = ov
    /\ ck_start' = 0
    /\ ck_chunks' = << >>
    /\ UNCHANGED <<entry, rt_vars, pl_vars, qa_vars, api_vars>>

\* one iteration of `while start < len(tokens)`  (lines 63-68)
ChunkLoop ==
    /\ entry = "chunk"
    /\ ck_pc = "loop"
    /\ ck_start < Len(ck_tokens)
    /\ Len(ck_chunks) < MaxIter
    /\ ck_chunks' = Append(ck_chunks, ChunkWindow(ck_tokens, ck_start, ck_size))
    /\ ck_start' = ChunkNextStart(ck_start, ck_size, ck_overlap)
    /\ UNCHANGED <<entry, ck_pc, ck_tokens, ck_size, ck_overlap,
                   rt_vars, pl_vars, qa_vars, api_vars>>

\* the loop condition fails: return chunks  (lines 63, 70)
ChunkReturn ==
    /\ entry = "chunk"
    /\ ck_pc = "loop"
    /\ ck_start >= Len(ck_tokens)
    /\ ck_pc' = "done"
    /\ UNCHANGED <<entry, ck_tokens, ck_size, ck_overlap, ck_start, ck_chunks,
                   rt_vars, pl_vars, qa_vars, api_vars>>


\* ---------------------------------------------- retriever/query_retriever.py
\* Python's None for pdf_name, page_range and a chunk's page
NoName == "<None>"

NoRange == << >>

PageNone == 0

\* the page numbers of chunks, and the page ranges asked for
PageNumbers == {1, 2}

PageRanges == {NoRange, <<1, 1>>, <<1, 2>>, <<3, 3>>}

\* the chunk texts of a document, in chunk order, and the queries asked
ChunkTexts == <<"t1", "t2", "t3", "t4", "t5">>

Queries == {"", " ", "q1"}

SourceNames == {"a.pdf", "b.pdf"}

\* embedding_model.encode followed by faiss.normalize_L2 (lines 72-73; api.py
\* lines 110-111): a fixed text -> unit vector table stands for the sentence
\* encoder.  The empty and the blank query are embedded like any other text.
Embed(text) ==
    CASE text \in {"t1", "q1", "t5"} -> <<1, 0>>
      [] text \in {"t2", "q2"}       -> <<0, 1>>
      [] text = "t3"                 -> <<-1, 0>>
      [] OTHER                       -> <<0, -1>>

Dot(a, b) == a[1] * b[1] + a[2] * b[2]

SqDist(a, b) == (a[1] - b[1]) * (a[1] - b[1]) + (a[2] - b[2]) * (a[2] - b[2])

\* faiss: the score of vector v for query q.  IndexFlatIP scores by inner
\* product (larger is nearer), IndexFlatL2 by squared distance (smaller is
\* nearer).
FaissScore(kind, q, v) == IF kind = "FlatIP" THEN Dot(q, v) ELSE SqDist(q, v)

FaissBetter(kind, a, b) == IF kind = "FlatIP" THEN a > b ELSE a < b

\* faiss fills the hits it does not have with label -1 and the score
\* -FLT_MAX (inner product) or +FLT_MAX (L2)
FaissNoHitScore(kind) == IF kind = "FlatIP" THEN 0 - 999 ELSE 999

\* search_index.search(query_embedding, k) (lines 76-78): always k
\* (label, score) pairs, nearest first, equal scores by ascending label; the
\* pairs beyond ntotal are the no-hit pair.  Labels are 0-based rows.
FaissSearch(index, q, k) ==
    LET n == Len(index.vecs)
        sc(i) == FaissScore(index.kind, q, index.vecs[i])
        rank(i) == Cardinality({j \in 1..n :
                        \/ FaissBetter(index.kind, sc(j), sc(i))
                        \/ (sc(j) = sc(i) /\ j < i)})
        at(p) == CHOOSE i \in 1..n : rank(i) = p - 1
    IN  [p \in 1..k |->
            IF p <= n THEN <<at(p) - 1, sc(at(p))>>
            ELSE <<0 - 1, FaissNoHitScore(index.kind)>>]

\* Python's s[i] on a list: it raises IndexError outside -len(s)..len(s)-1
\* and counts a negative i from the end
PyIndexOk(s, i) == i >= 0 - Len(s) /\ i < Len(s)

PyIndex(s, i) == IF i < 0 THEN s[Len(s) + i + 1] ELSE s[i + 1]

RtError(name) == [status |-> name, records |-> << >>]

\* lines 80-90: every (idx, score) pair of the search becomes a record built
\* from metadata_to_use[idx]; idx is not compared with -1
RtMapHits(hits, metadata_to_use) ==
    IF \E p \in 1..Len(hits) : ~PyIndexOk(metadata_to_use, hits[p][1])
    THEN RtError("IndexError")
    ELSE [status |-> "ok",
          records |-> [p \in 1..Len(hits) |->
              LET meta == PyIndex(metadata_to_use, hits[p][1])
              IN  [chunk |-> meta.chunk, source |-> meta.source,
                   page |-> meta.page, score |-> hits[p][2]]]]

\* lines 35-48: allowed_indices, as 0-based rows
RtAllowedByName(chunk_metadata, pdf_name) ==
    LET all == [i \in 1..Len(chunk_metadata) |-> i - 1]
    IN  IF pdf_name # NoName
        THEN SelectSeq(all, LAMBDA i : chunk_metadata[i + 1].source = pdf_name)
        ELSE all

\* line 47 compares start_page <= page <= end_page for every row still
\* allowed; a page of None makes that comparison raise TypeError
RtPageCompareRaises(chunk_metadata, byName, page_range) ==
    /\ page_range # NoRange
    /\ \E p \in 1..Len(byName) : chunk_metadata[byName[p] + 1].page = PageNone

RtAllowed(chunk_metadata, pdf_name, page_range) ==
    LET byName == RtAllowedByName(chunk_metadata, pdf_name)
    IN  IF page_range # NoRange
        THEN SelectSeq(byName, LAMBDA i :
                /\ page_range[1] <= chunk_metadata[i + 1].page
                /\ chunk_metadata[i + 1].page <= page_range[2])
        ELSE byName

\* retrieve_top_k_chunks (lines 29-90).  An index is [kind, vecs]; only
\* IndexFlatIP can reconstruct its vectors (IndexIDMap raises), and
\* filtered_vectors.shape[1] raises IndexError on the empty array.
RetrieveTopK(query, faiss_index, chunk_metadata, k, pdf_name, page_range) ==
    LET byName == RtAllowedByName(chunk_metadata, pdf_name)
        allowed == RtAllowed(chunk_metadata, pdf_name, page_range)
        q == Embed(query)
    IN  IF RtPageCompareRaises(chunk_metadata, byName, page_range)
        THEN RtError("TypeError")
        ELSE IF Len(allowed) # Len(chunk_metadata)
        THEN IF faiss_index.kind # "FlatIP" THEN RtError("RuntimeError")
             ELSE IF Len(allowed) = 0 THEN RtError("IndexError")
             ELSE LET temp_index ==
                        [kind |-> "FlatIP",
                         vecs |-> [p \in 1..Len(allowed) |->
                                      faiss_index.vecs[allowed[p] + 1]]]
                      filtered_metadata ==
                        [p \in 1..Len(allowed) |-> chunk_metadata[allowed[p] + 1]]
                  IN  RtMapHits(FaissSearch(temp_index, q, k), filtered_metadata)
        ELSE RtMapHits(FaissSearch(faiss_index, q, k), chunk_metadata)

\* extract_clause_number_from_text (generate_embeddings.py lines 50-65): the
\* first dotted numeral of the chunk, or None ("<None>"); a fixed table stands
\* for the regular expression
ExtractClause(text) ==
    CASE text = "t1" -> "4.2"
      [] text = "t3" -> "5.1"
      [] OTHER       -> NoName

\* index.add(embeddings): row i of the index is the embedding of chunk i
\* (api.py lines 109-115, generate_embeddings.py lines 120-131)
BuildIndex(kind, chunks) ==
    [kind |-> kind, vecs |-> [i \in 1..Len(chunks) |-> Embed(chunks[i].chunk)]]

\* the metadata tables of n chunks: chunk i carries text i, any source and
\* any page (None included)
MetadataTables(n) ==
    {[i \in 1..n |-> [chunk |-> ChunkTexts[i], source |-> src[i], page |-> pg[i],
                       clause_number |-> ExtractClause(ChunkTexts[i])]] :
        src \in [1..n -> SourceNames], pg \in [1..n -> {PageNone} \cup PageNumbers]}

\* retrieve_top_k_chunks called on an index and its metadata table
RetrieveCall(query, kind, metadata, k, pdf_name, page_range) ==
    /\ entry = "retrieve"
    /\ rt_pc = "idle"
    /\ rt_pc' = "done"
    /\ rt_args' = [query |-> query, index |-> BuildIndex(kind, metadata),
                   metadata |-> metadata, k |-> k, pdf_name |-> pdf_name,
                   page_range |-> page_range]
    /\ rt_result' = RetrieveTopK(query, BuildIndex(kind, metadata), metadata, k,
                                 pdf_name, page_range)
    /\ UNCHANGED <<entry, ck_vars, pl_vars, qa_vars, api_vars>>

\* ---------------------------------------------- embeddings/generate_embeddings.py
\* the file name of the temporary PDF of a URL build
TempName == "tmp.pdf"

\* process_single_pdf (lines 68-87) on a document whose text chunks into the
\* first n chunk texts, handed a pathlib.Path (by
\* process_multiple_pdfs_and_create_index, line 107) or a str (by the URL
\* builds).  Every row reads pdf_path.name: a str has no such attribute, so
\* on a str path the first chunk raises AttributeError; with no chunk the
\* loop body never runs and [] is returned.
ProcessSinglePdf(path_kind, name, n) ==
    IF n > 0 /\ path_kind = "str"
    THEN [status |-> "AttributeError", chunks |-> << >>]
    ELSE [status |-> "ok",
          chunks |-> [i \in 1..n |->
                        [chunk |-> ChunkTexts[i], source |-> name,
                         page |-> PageNone,
                         clause_number |-> ExtractClause(ChunkTexts[i])]]]

\* what a URL gives when it is fetched and processed: the download fails,
\* the PDF cannot be read, or its text chunks into n chunks (n = 0: no text),
\* which the embedding model then encodes or fails to encode
DocOutcomes ==
    {[fetch |-> f, n |-> 0, embed |-> "ok"] :
        f \in {"download_error", "extract_error"}}
        \cup {[fetch |-> "ok", n |-> n, embed |-> "ok"] : n \in 0..MaxDocChunks}
        \cup {[fetch |-> "ok", n |-> n, embed |-> "error"] : n \in 1..MaxDocChunks}

\* ---------------------------------------------- llm/answer_generator.py
\* a chat turn {"role": ..., "content": ...}; contents are kept as tuples
Turn(role, content) == [role |-> role, content |-> content]

\* generate_answer_with_gpt, lines 56-66: the system prompt, the history as
\* given, the context (if it is not blank), the query last
GptMessages(history, query, context) ==
    <<Turn("system", <<"prompt">>)>> \o history
        \o (IF context # << >> THEN <<Turn("system", <<"CONTEXT">> \o context)>>
            ELSE << >>)
        \o <<Turn("user", <<query>>)>>

\* lines 69-77: the completion for those messages (the chat model is a
\* function of the query here)
GptAnswer(messages) == <<"gpt">> \o messages[Len(messages)].content

\* ---------------------------------------------- app/rag_pipeline.py
\* window_size = 6  (line 78)
WindowSize == 6

NotFoundAnswer == <<"not-found">>

\* "\n\n".join(item["chunk"] for item in retrieved_chunks)  (line 85): the
\* chunk texts in order; it is the empty string exactly when there is no
\* record, the chunk texts being non-empty
JoinChunks(records) == [p \in 1..Len(records) |-> records[p].chunk]

\* lines 104-106: if len(chat_history) > window_size:
\*                    chat_history = chat_history[-window_size:]
TrimHistory(history, window_size) ==
    IF Len(history) > window_size
    THEN PySlice(history, 0 - window_size, Len(history))
    ELSE history

\* create_index_from_url (lines 21-56) on a URL that gives outcome doc.
\* process_single_pdf is handed pdf_path = temp_file.name, a str (lines 37,
\* 40).
CreateIndexFromUrl(doc) ==
    IF doc.fetch = "download_error" THEN [status |-> "ConnectionError"]
    ELSE IF doc.fetch = "extract_error" THEN [status |-> "ExtractError"]
    ELSE LET got == ProcessSinglePdf("str", TempName, doc.n)
         IN  IF got.status # "ok" THEN [status |-> got.status]
             ELSE IF got.chunks = << >> THEN [status |-> "none"]
             ELSE IF doc.embed # "ok" THEN [status |-> "EmbedError"]
             ELSE [status |-> "ok", index |-> BuildIndex("FlatIP", got.chunks),
                   chunks |-> got.chunks]

\* str(e) of the exception process_api_request catches (lines 66-72)
PlErrorText(status) ==
    IF status = "none" THEN <<"error", "ValueError">> ELSE <<"error", status>>

\* an error path that answers once, whatever the number of questions
PlErrorAnswersOnce(questions, status) ==
    <<[question |-> << >>, answer |-> PlErrorText(status)]>>

\* line 72: [{"question": q, "answer": str(e)} for q in questions]
PlErrorAnswers(questions, status) ==
    [i \in 1..Len(questions) |->
        [question |-> questions[i], answer |-> PlErrorText(status)]]

\* the question loop of process_api_request, lines 81-106, from question i
\* on: retrieve, join the context, answer by the generation call (or the
\* canned message when the context is empty), append the two turns, trim.
\* The generation call of question gen_fail raises, and nothing in the loop
\* catches an exception.  acc holds final_answers and the calls made so far.
RECURSIVE PlLoop(_, _, _, _, _, _)
PlLoop(questions, built, i, history, acc, gen_fail) ==
    IF i > Len(questions)
    THEN [status |-> "ok", answers |-> acc.answers,
          retrievals |-> acc.retrievals, generations |-> acc.generations]
    ELSE LET question == questions[i]
             got == RetrieveTopK(question, built.index, built.chunks, 3,
                                 NoName, NoRange)
             context == JoinChunks(got.records)
             calls_gpt == got.status = "ok" /\ context # << >>
             messages == GptMessages(history, question, context)
             answer == IF calls_gpt THEN GptAnswer(messages) ELSE NotFoundAnswer
             appended == history \o <<Turn("user", <<question>>),
                                      Turn("assistant", answer)>>
             generations == acc.generations + (IF calls_gpt THEN 1 ELSE 0)
         IN  IF got.status # "ok" \/ (calls_gpt /\ i = gen_fail)
             THEN [status |-> "raised", answers |-> << >>,
                   retrievals |-> acc.retrievals + 1,
                   generations |-> generations]
             ELSE PlLoop(questions, built, i + 1,
                         TrimHistory(appended, WindowSize),
                         [answers |-> Append(acc.answers,
                              [question |-> question, answer |-> answer]),
                          retrievals |-> acc.retrievals + 1,
                          generations |-> generations],
                         gen_fail)

\* process_api_request (lines 60-109): build the index; on any failure
\* return the error text for every question (lines 70-72), otherwise run the
\* question loop and return final_answers (lines 74-109)
ProcessApiRequest(questions, doc, gen_fail) ==
    /\ entry = "pipeline"
    /\ pl_pc = "idle"
    /\ gen_fail \in 0..Len(questions)
    /\ pl_questions' = questions
    /\ LET built == CreateIndexFromUrl(doc)
           run == PlLoop(questions, built, 1, << >>,
                         [answers |-> << >>, retrievals |-> 0,
                          generations |-> 0], gen_fail)
       IN  /\ pl_doc' = built
           /\ IF built.status # "ok"
              THEN /\ pl_pc' = "done"
                   /\ final_answers' = PlErrorAnswers(questions, built.status)
                   /\ pl_retrievals' = 0
                   /\ pl_generations' = 0
              ELSE /\ pl_pc' = IF run.status = "ok" THEN "done" ELSE "raised"
                   /\ final_answers' = run.answers
                   /\ pl_retrievals' = run.retrievals
                   /\ pl_generations' = run.generations
    /\ UNCHANGED <<entry, ck_vars, rt_vars, qa_vars, api_vars>>

\* the question lists of a request
QuestionTexts == {"", "q1", "q2"}

QuestionLists == UNION {[1..n -> QuestionTexts] : n \in 0..MaxQuestions}

\* ---------------------------------------------- llm/answer_generator.py
\* the lines typed at the prompt, after .strip()
QaLines == {"", "exit", "q1", "clause 4.2"}

\* process_multiple_pdfs_and_create_index (generate_embeddings.py lines
\* 90-140) on a folder holding a.pdf (na chunks) and b.pdf (nb chunks): the
\* rows of the PDFs in sorted order, under an IndexIDMap over IndexFlatL2,
\* written to the two files.  With no chunk at all it raises RuntimeError
\* (lines 112-113) and writes nothing.
PersistedBuild(na, nb) ==
    LET rows == ProcessSinglePdf("Path", "a.pdf", na).chunks
                  \o ProcessSinglePdf("Path", "b.pdf", nb).chunks
    IN  IF Len(rows) = 0
        THEN [status |-> "RuntimeError", written |-> FALSE]
        ELSE [status |-> "ok", written |-> TRUE,
              index |-> BuildIndex("IDMapL2", rows), chunks |-> rows]

\* the chunk counts (a.pdf, b.pdf) of the data folder at the builds that
\* wrote the files on disk
FolderBuilds == {<<1, 0>>, <<1, 1>>, <<2, 1>>}

\* the two files on disk when a session starts: written by one build, or the
\* index of a build (na, nb) beside the metadata of an earlier build
\* (ma, mb) of the folder.  The build writes the index file and then the
\* metadata file (generate_embeddings.py lines 134-136), so a rebuild that
\* stops between the two writes leaves such a pair.  A build with no chunk
\* raises before it writes (line 113).
DiskPairs ==
    {[index |-> PersistedBuild(n[1], n[2]).index,
      chunks |-> PersistedBuild(m[1], m[2]).chunks] :
        n \in FolderBuilds, m \in FolderBuilds}

\* load_faiss_and_metadata (query_retriever.py lines 13-26): read the index
\* file, unpickle the metadata file, return the two as they are
LoadFaissAndMetadata(disk) == [index |-> disk.index, chunks |-> disk.chunks]

\* lines 87-88: load the index and metadata, chat_history = []
QaStart(disk) ==
    /\ entry = "qa"
    /\ qa_pc = "idle"
    /\ qa_pc' = "prompt"
    /\ qa_doc' = LoadFaissAndMetadata(disk)
    /\ qa_chat_history' = << >>
    /\ UNCHANGED <<entry, ck_vars, rt_vars, pl_vars, api_vars, qa_inputs>>

\* lines 92-94: an empty line is read and skipped
QaBlankLine ==
    /\ entry = "qa"
    /\ qa_pc = "prompt"
    /\ qa_inputs < MaxInputs
    /\ qa_inputs' = qa_inputs + 1
    /\ UNCHANGED <<entry, ck_vars, rt_vars, pl_vars, api_vars, qa_pc, qa_doc,
                   qa_chat_history>>

\* lines 95-96: exit / quit ends the loop
QaExit ==
    /\ entry = "qa"
    /\ qa_pc = "prompt"
    /\ qa_inputs < MaxInputs
    /\ qa_inputs' = qa_inputs + 1
    /\ qa_pc' = "exited"
    /\ UNCHANGED <<entry, ck_vars, rt_vars, pl_vars, api_vars, qa_doc,
                   qa_chat_history>>

\* lines 98-104: a question is read, its clause is extracted, and
\* retrieve_top_k_chunks is called with the keywords clause_number and
\* search_k.  The function imported at line 12 (query_retriever.py line 29)
\* has neither parameter, so the call raises TypeError: nothing is
\* retrieved, generate_answer_with_gpt is not called, chat_history stays as
\* it is, and the exception ends the session.
QaAskTypeError(query) ==
    /\ entry = "qa"
    /\ qa_pc = "prompt"
    /\ qa_inputs < MaxInputs
    /\ query \notin {"", "exit"}
    /\ qa_inputs' = qa_inputs + 1
    /\ qa_pc' = "TypeError"
    /\ UNCHANGED <<entry, ck_vars, rt_vars, pl_vars, api_vars, qa_doc,
                   qa_chat_history>>

\* ---------------------------------------------- app/api.py
Urls == {"u1", "u2"}

NoEntry == [id |-> 0, index |-> << >>, chunks |-> << >>]

NoResp == [status |-> 0, stage |-> "none", built |-> FALSE, entry |-> NoEntry,
           answers |-> << >>, messages |-> << >>]

\* document_cache[doc_url] = (index, chunks)  (line 118)
CachePut(cache, url, e) ==
    [u \in DOMAIN cache \cup {url} |-> IF u = url THEN e ELSE cache[u]]

\* a get_or_create_document_index that stores what process_single_pdf
\* returned under the URL before the no-chunks check and the embedding
GetOrCreateStoresEarly(cache, url, doc, new_id) ==
    IF url \in DOMAIN cache
    THEN [status |-> 200, built |-> FALSE, entry |-> cache[url], cache |-> cache]
    ELSE IF doc.fetch = "download_error"
    THEN [status |-> 400, built |-> TRUE, entry |-> NoEntry, cache |-> cache]
    ELSE LET got == IF doc.fetch = "ok"
                    THEN ProcessSinglePdf("str", TempName, doc.n)
                    ELSE [status |-> "ExtractError", chunks |-> << >>]
             e == [id |-> new_id, index |-> BuildIndex("FlatIP", got.chunks),
                   chunks |-> got.chunks]
         IN  IF got.status # "ok"
             THEN [status |-> 500, built |-> TRUE, entry |-> NoEntry, cache |-> cache]
             ELSE IF got.chunks = << >> \/ doc.embed # "ok"
             THEN [status |-> 500, built |-> TRUE, entry |-> NoEntry,
                   cache |-> CachePut(cache, url, e)]
             ELSE [status |-> 200, built |-> TRUE, entry |-> e,
                   cache |-> CachePut(cache, url, e)]

\* get_or_create_document_index (lines 80-128): the status it ends with (200,
\* or the HTTPException's 400 / 500), whether it ran the build, the
\* (index, chunks) it returns, and document_cache afterwards.
\*   lines 86-88   the URL is cached: return the stored tuple
\*   lines 92-99   download; a failure raises HTTPException 400
\*   lines 102-124 process_single_pdf on pdf_path = temp_file.name, a str
\*                 (lines 97, 104), the no-chunks check, encode, index, and
\*                 only then the store of line 118; any failure raises
\*                 HTTPException 500
GetOrCreateDocumentIndex(cache, url, doc, new_id) ==
    IF url \in DOMAIN cache
    THEN [status |-> 200, built |-> FALSE, entry |-> cache[url], cache |-> cache]
    ELSE IF doc.fetch = "download_error"
    THEN [status |-> 400, built |-> TRUE, entry |-> NoEntry, cache |-> cache]
    ELSE LET got == IF doc.fetch = "ok"
                    THEN ProcessSinglePdf("str", TempName, doc.n)
                    ELSE [status |-> "ExtractError", chunks |-> << >>]
         IN  IF got.status # "ok" \/ got.chunks = << >> \/ doc.embed # "ok"
             THEN [status |-> 500, built |-> TRUE, entry |-> NoEntry, cache |-> cache]
             ELSE LET e == [id |-> new_id,
                            index |-> BuildIndex("FlatIP", got.chunks),
                            chunks |-> got.chunks]
                  IN  [status |-> 200, built |-> TRUE, entry |-> e,
                       cache |-> CachePut(cache, url, e)]

\* process_questions, lines 150-160: the messages of the generation call for
\* a question, generate_answer_with_gpt([], question, context); << >> when
\* nothing was retrieved and the call is skipped
ApiMessages(question, e) ==
    LET got == RetrieveTopK(question, e.index, e.chunks, 3, NoName, NoRange)
    IN  IF got.records = << >> THEN << >>
        ELSE GptMessages(<< >>, question, JoinChunks(got.records))

\* process_questions, lines 146-161: the answer of question i, with an empty
\* chat history for every question
ApiAnswer(question, e) ==
    IF ApiMessages(question, e) = << >> THEN NotFoundAnswer
    ELSE GptAnswer(ApiMessages(question, e))

\* does the loop of lines 148-161 raise: the retrieval of some question
\* raises, or the generation call of question gen_fail does
ApiLoopRaises(questions, e, gen_fail) ==
    \E i \in 1..Len(questions) :
        LET got == RetrieveTopK(questions[i], e.index, e.chunks, 3, NoName, NoRange)
        IN  \/ got.status # "ok"
            \/ (i = gen_fail /\ got.records # << >>)

\* the documents behind the URLs of API requests: at most one chunk long
ApiDocOutcomes == {d \in DocOutcomes : d.n <= 1}

\* the questions of API requests: a request asks the first n of them
ApiQuestionTexts == <<"q1", "q2", "", "q1">>

ApiQuestionLists ==
    {[i \in 1..n |-> ApiQuestionTexts[i]] : n \in 0..MaxApiQuestions}

\* a POST /hackrx/run arrives: the request is in flight until its handler has
\* run.  Requests are numbered in arrival order.
ApiArrive(url, questions) ==
    /\ entry = "api"
    /\ Len(api_req) < MaxRequests
    /\ LET r == Len(api_req) + 1
       IN  /\ api_req' = Append(api_req, [url |-> url, questions |-> questions])
           /\ api_resp' = [x \in 1..r |-> IF x = r THEN NoResp ELSE api_resp[x]]
           /\ api_overlap' = api_overlap \cup
                 (IF url \in DOMAIN document_cache THEN {}
                  ELSE {{r, o} : o \in {x \in 1..Len(api_req) :
                                   /\ api_resp[x] = NoResp
                                   /\ api_req[x].url = url}})
    /\ UNCHANGED <<entry, ck_vars, rt_vars, pl_vars, qa_vars,
                   document_cache, api_next_id, api_running>>

\* the event loop starts the handler of request r (line 133).  uvicorn runs
\* one event loop in one process (start_api.py), and a coroutine that is
\* running keeps the loop until it awaits or returns: no handler starts
\* while another one is running.
ApiBegin(r) ==
    /\ entry = "api"
    /\ api_running = 0
    /\ r \in 1..Len(api_req)
    /\ api_resp[r] = NoResp
    /\ api_running' = r
    /\ UNCHANGED <<entry, ck_vars, rt_vars, pl_vars, qa_vars,
                   document_cache, api_req, api_resp, api_overlap, api_next_id>>

\* process_questions (lines 132-169) for the request r whose handler is
\* running.  The handler is an `async def` that never awaits, so it runs
\* from its first line to its response without another handler running in
\* between; the download, the build and the answers happen in this one step.
ApiHandle(r, doc, gen_fail) ==
    /\ entry = "api"
    /\ api_running = r
    /\ r \in 1..Len(api_req)
    /\ api_resp[r] = NoResp
    /\ api_running' = 0
    /\ gen_fail \in 0..Len(api_req[r].questions)
    /\ LET got == GetOrCreateDocumentIndex(document_cache, api_req[r].url,
                                           doc, api_next_id)
           qs == api_req[r].questions
       IN  /\ document_cache' = got.cache
           /\ api_next_id' = IF got.built THEN api_next_id + 1 ELSE api_next_id
           /\ api_resp' = [api_resp EXCEPT ![r] =
                 IF got.status # 200
                 THEN [status |-> got.status, stage |-> "build",
                       built |-> got.built, entry |-> NoEntry, answers |-> << >>,
                       messages |-> << >>]
                 ELSE IF ApiLoopRaises(qs, got.entry, gen_fail)
                 THEN [status |-> 500, stage |-> "answer", built |-> got.built,
                       entry |-> got.entry, answers |-> << >>,
                       messages |-> << >>]
                 ELSE [status |-> 200, stage |-> "answer", built |-> got.built,
                       entry |-> got.entry,
                       answers |-> [i \in 1..Len(qs) |-> ApiAnswer(qs[i], got.entry)],
                       messages |-> [i \in 1..Len(qs) |->
                                        ApiMessages(qs[i], got.entry)]]]
    /\ UNCHANGED <<entry, ck_vars, rt_vars, pl_vars, qa_vars,
                   api_req, api_overlap>>

\* the state of the modules at import (document_cache = {}, api.py line 46)
\* and of the entry point before its first step
Init ==
    /\ entry \in Entries
    /\ document_cache = << >>
    /\ api_req = << >>
    /\ api_resp = << >>
    /\ api_overlap = {}
    /\ api_next_id = 1
    /\ api_running = 0
    /\ qa_pc = "idle"
    /\ qa_doc = << >>
    /\ qa_inputs = 0
    /\ qa_chat_history = << >>
    /\ pl_pc = "idle"
    /\ pl_questions = << >>
    /\ pl_doc = << >>
    /\ final_answers = << >>
    /\ pl_retrievals = 0
    /\ pl_generations = 0
    /\ rt_pc = "idle"
    /\ rt_args = << >>
    /\ rt_result = << >>
    /\ ck_pc = "idle"
    /\ ck_tokens = << >>
    /\ ck_size = 0
    /\ ck_overlap = 0
    /\ ck_start = 0
    /\ ck_chunks = << >>

Next ==
    \/ /\ entry = "chunk" /\ ck_pc = "idle"
       /\ \E n \in 0..MaxTokens, cs \in 1..MaxChunkArg, ov \in 0..MaxChunkArg :
             ChunkCall(n, cs, ov)
    \/ ChunkLoop
    \/ ChunkReturn
    \/ /\ entry = "retrieve" /\ rt_pc = "idle"
       /\ \E n \in 1..MaxChunks, k \in 1..MaxK, query \in Queries,
          kind \in {"FlatIP", "IDMapL2"},
          pdf_name \in {NoName} \cup SourceNames,
          page_range \in PageRanges :
          \E metadata \in MetadataTables(n) :
             RetrieveCall(query, kind, metadata, k, pdf_name, page_range)
    \/ /\ entry = "pipeline" /\ pl_pc = "idle"
       /\ \E questions \in QuestionLists, doc \in DocOutcomes,
             gen_fail \in 0..MaxQuestions :
             ProcessApiRequest(questions, doc, gen_fail)
    \/ /\ entry = "qa" /\ qa_pc = "idle"
       /\ \E disk \in DiskPairs : QaStart(disk)
    \/ QaBlankLine
    \/ QaExit
    \/ \E query \in QaLines : QaAskTypeError(query)
    \/ /\ entry = "api" /\ Len(api_req) < MaxRequests
       /\ \E url \in Urls, questions \in ApiQuestionLists :
             ApiArrive(url, questions)
    \/ \E r \in 1..MaxRequests : ApiBegin(r)
    \/ /\ entry = "api" /\ api_running # 0
       /\ \E doc \in ApiDocOutcomes, gen_fail \in 0..MaxApiQuestions :
             ApiHandle(api_running, doc, gen_fail)

Spec == Init /\ [][Next]_vars

\* ==================================================================
\* Claims
\* ==================================================================

\* C6: chunk_text_by_tokens fails with an InvalidParameter error whenever
\* chunk_size <= overlap, instead of looping or emitting non-advancing windows.
\* The function has no parameter check: a call with chunk_size <= overlap
\* enters the loop like any other call.
C6_InvalidParameterRaised ==
    (ck_pc # "idle" /\ ck_size <= ck_overlap) => ck_pc = "InvalidParameter"

\* window j (0-based) as the claim of C7 describes it: the tokens
\* [j*step, min(j*step + chunk_size, N))
C7_ExpectedWindow(j, step, cs, N) ==
    [i \in 1..(Min(j * step + cs, N) - j * step) |-> j * step + i]

\* what C7 says of every call with chunk_size > overlap, but for its last
\* clause: the loop stays within ceil(N / step) iterations (so it ends), the
\* returned list has exactly that many windows, and window j is
\* [j*step, min(j*step + chunk_size, N)), non-empty and at most chunk_size long
C7_CountAndPlacement ==
    (ck_pc # "idle" /\ ck_size > ck_overlap) =>
        LET step == ck_size - ck_overlap
            N == Len(ck_tokens)
        IN  /\ ck_start = Len(ck_chunks) * step
            /\ Len(ck_chunks) <= CeilDiv(N, step)
            /\ (ck_pc = "done" => Len(ck_chunks) = CeilDiv(N, step))
            /\ \A j \in 1..Len(ck_chunks) :
                  /\ ck_chunks[j] = C7_ExpectedWindow(j - 1, step, ck_size, N)
                  /\ Len(ck_chunks[j]) >= 1
                  /\ Len(ck_chunks[j]) <= ck_size

\* C7 (as amended): for chunk_size > overlap >= 0 the call ends and emits
\* exactly ceil(N / step) windows, window j being
\* [j*step, min(j*step + chunk_size, N)), non-empty and at most chunk_size
\* long; the windows shorter than chunk_size are those with
\* j*step + chunk_size > N, which are the last windows of the output (several
\* of them when overlap > 0).
C7_WindowsAmended ==
    /\ C7_CountAndPlacement
    /\ (ck_pc # "idle" /\ ck_size > ck_overlap) =>
          \A j \in 1..Len(ck_chunks) :
             /\ (Len(ck_chunks[j]) < ck_size
                   <=> (j - 1) * (ck_size - ck_overlap) + ck_size > Len(ck_tokens))
             /\ (Len(ck_chunks[j]) < ck_size =>
                   \A m \in j..Len(ck_chunks) : Len(ck_chunks[m]) < ck_size)

\* C7 (as stated): the same, with "only the final window is shorter than
\* chunk_size"
C7_OnlyFinalWindowShort ==
    /\ C7_CountAndPlacement
    /\ (ck_pc = "done" /\ ck_size > ck_overlap) =>
          \A j \in 1..Len(ck_chunks) :
             Len(ck_chunks[j]) < ck_size => j = Len(ck_chunks)

\* a call with a real overlap has returned at least three windows, the last
\* of them short
C7_Witness ==
    /\ ck_pc = "done"
    /\ ck_size > ck_overlap
    /\ ck_overlap > 0
    /\ Len(ck_chunks) >= 3
    /\ Len(ck_chunks[Len(ck_chunks)]) < ck_size

\* the rows a finished retrieve_top_k_chunks call searched: those passing its
\* pdf_name / page_range filter
RtPopulation ==
    Len(RtAllowed(rt_args.metadata, rt_args.pdf_name, rt_args.page_range))

RtFiltered == rt_args.pdf_name # NoName \/ rt_args.page_range # NoRange

RtPlainCall ==
    /\ rt_pc = "done"
    /\ rt_args.index.kind = "FlatIP"
    /\ ~RtPageCompareRaises(rt_args.metadata,
            RtAllowedByName(rt_args.metadata, rt_args.pdf_name), rt_args.page_range)

\* C8: retrieve_top_k_chunks called with an empty or blank query returns an
\* empty result list, not an error and not any chunks (stated for the calls
\* without a filter, on every index and metadata table).  The function never
\* looks at the query before embedding it.
C8_BlankQueryReturnsEmpty ==
    (RtPlainCall /\ ~RtFiltered /\ rt_args.query \in {"", " "}) =>
        (rt_result.status = "ok" /\ rt_result.records = << >>)

\* C9: when k exceeds the number of vectors searched, the result has exactly
\* one record per available chunk: min(k, population) records, no chunk
\* twice, and no record made up for a missing hit.  The records come from
\* every (label, score) pair of the search, the -1 labels included.
C9_NoPaddingBeyondPopulation ==
    (RtPlainCall /\ rt_result.status = "ok" /\ rt_args.k > RtPopulation) =>
        /\ Len(rt_result.records) = Min(rt_args.k, RtPopulation)
        /\ \A a, b \in 1..Len(rt_result.records) :
              a # b => rt_result.records[a].chunk # rt_result.records[b].chunk
        /\ \A a \in 1..Len(rt_result.records) :
              rt_result.records[a].score # FaissNoHitScore("FlatIP")

\* C10: when the pdf_name / page_range filter matches zero rows of the
\* metadata table, retrieve_top_k_chunks returns an empty list rather than
\* failing.  The temporary index is built from the empty array.
C10_EmptyFilterReturnsEmpty ==
    (RtPlainCall /\ RtFiltered /\ RtPopulation = 0) =>
        (rt_result.status = "ok" /\ rt_result.records = << >>)

\* C4 (after each question of process_api_request, chat_history holds the
\* most recent min(2n, 6) turns) has no formula here: the question loop runs
\* only after create_index_from_url has returned an index, and it never
\* does.  It hands process_single_pdf the str temp_file.name, so a document
\* with text raises AttributeError and one without gives no chunk
\* (CreateIndexFromUrl); ProcessApiRequest always takes the error path.

\* C5 (the chat_history interactive_qa hands to generate_answer_with_gpt
\* never holds more than 6 turns) has no formula here: every question ends
\* the session at the retrieval call (QaAskTypeError), so no behaviour hands
\* a history to generate_answer_with_gpt and qa_chat_history stays empty.

\* request r has been answered
ApiHandled(r) == r \in 1..Len(api_req) /\ api_resp[r] # NoResp

\* C1: when N >= 2 requests call get_or_create_document_index concurrently
\* for the same URL that is not yet in document_cache, the build is performed
\* exactly once and all callers receive the same (index, chunks) entry or the
\* same error.  Two such requests are a pair of api_overlap.
C1_AtMostOneBuild ==
    \A r1, r2 \in 1..Len(api_req) :
        ({r1, r2} \in api_overlap /\ r1 # r2 /\ ApiHandled(r1) /\ ApiHandled(r2)) =>
            /\ ~(api_resp[r1].built /\ api_resp[r2].built)
            /\ api_resp[r1].entry = api_resp[r2].entry

\* the step answers request r
ApiAnswers(r) ==
    /\ r \in 1..Len(api_req)
    /\ api_resp[r] = NoResp
    /\ api_resp'[r] # NoResp

\* C2 (once an entry is stored for a URL, later calls return it without
\* building, and it is never evicted or replaced) has no formula here: the
\* store of api.py line 118 follows a process_single_pdf call that returned
\* chunks, and on the str path it is handed that call raises AttributeError
\* or returns no chunk (GetOrCreateDocumentIndex), so document_cache stays
\* empty and no call finds its URL cached.

\* C3: if get_or_create_document_index fails for a URL (download error, no
\* extracted chunks, or embedding/indexing error), document_cache is left
\* unchanged and holds no entry for that URL, so the next call with the same
\* URL (any call that finds the URL uncached) runs the build again.
C3_FailureNotCached ==
    [][ \A r \in 1..MaxRequests :
          ApiAnswers(r) =>
              /\ api_resp'[r].stage = "build" =>
                    /\ document_cache' = document_cache
                    /\ api_req[r].url \notin DOMAIN document_cache'
              /\ api_req[r].url \notin DOMAIN document_cache =>
                    /\ api_resp'[r].built
                    /\ api_next_id' = api_next_id + 1 ]_vars

\* the build of a URL failed at the processing step and left nothing in
\* document_cache, and a later request for the same URL ran the build again
C3_Witness ==
    \E r1, r2 \in 1..Len(api_req) :
        /\ r1 < r2
        /\ api_req[r1].url = api_req[r2].url
        /\ api_resp[r1].stage = "build"
        /\ api_resp[r1].status = 500
        /\ api_resp[r1].built
        /\ api_resp[r2] # NoResp
        /\ api_resp[r2].built
        /\ api_next_id >= 3
        /\ api_req[r1].url \notin DOMAIN document_cache

\* a metadata row passes the filter of a call: its source is the pdf_name
\* asked for, and its page is present and within the page_range asked for
C11_Passes(row, pdf_name, page_range) ==
    /\ pdf_name # NoName => row.source = pdf_name
    /\ page_range # NoRange =>
          /\ row.page # PageNone
          /\ page_range[1] <= row.page
          /\ row.page <= page_range[2]

\* C11: a retrieve_top_k_chunks call with pdf_name = s returns only records
\* whose source is s, and a call with page_range = (a, b) only records whose
\* page lies in a..b; a chunk without a page (page None, as every build
\* writes it) is left out of the result and is not an error.  Line 47
\* compares the bounds with every row's page, None included.
C11_FilterCorrect ==
    (rt_pc = "done" /\ rt_args.index.kind = "FlatIP" /\ RtFiltered) =>
        /\ rt_result.status # "TypeError"
        /\ rt_result.status = "ok" =>
              \A p \in 1..Len(rt_result.records) :
                 C11_Passes(rt_result.records[p], rt_args.pdf_name,
                            rt_args.page_range)

\* C12: every record returned by retrieve_top_k_chunks carries the chunk
\* text, source, page, clause_number and score.  The records of lines 83-88
\* have the keys chunk, source, page and score.
C12_RecordsCarryClause ==
    (rt_pc = "done" /\ rt_result.status = "ok") =>
        \A p \in 1..Len(rt_result.records) :
           {"chunk", "source", "page", "clause_number", "score"}
              \subseteq DOMAIN rt_result.records[p]

\* an index and a metadata table are aligned: as many vectors as rows, and
\* vector i is the embedding of the chunk text of row i
C13_Aligned(index, metadata) ==
    /\ Len(index.vecs) = Len(metadata)
    /\ \A i \in 1..Len(metadata) : index.vecs[i] = Embed(metadata[i].chunk)

\* C13: every index the program builds (the per-URL builds of api.py and
\* rag_pipeline.py, the persisted multi-PDF build that wrote its files) is
\* aligned with its metadata table, and every record a search gives back is the metadata of
\* the chunk the search found: it names a row of the table and its score is
\* the score of that row's vector for the query (this covers the temporary
\* sub-index, whose rows are rows of the table).  The result loop also maps
\* the label -1 of a missing hit to a row.
C13_IdAlignment ==
    /\ \A u \in DOMAIN document_cache :
          C13_Aligned(document_cache[u].index, document_cache[u].chunks)
    /\ (entry = "pipeline" /\ pl_pc # "idle" /\ pl_doc.status = "ok") =>
          C13_Aligned(pl_doc.index, pl_doc.chunks)
    /\ \A na, nb \in 0..MaxDocChunks :
          PersistedBuild(na, nb).written =>
             C13_Aligned(PersistedBuild(na, nb).index, PersistedBuild(na, nb).chunks)
    /\ (rt_pc = "done" /\ rt_result.status = "ok") =>
          \A p \in 1..Len(rt_result.records) :
             \E i \in 1..Len(rt_args.metadata) :
                /\ rt_result.records[p].chunk = rt_args.metadata[i].chunk
                /\ rt_result.records[p].score =
                      FaissScore(rt_args.index.kind, Embed(rt_args.query),
                                 rt_args.index.vecs[i])

\* the over-retrieve-and-filter strategy on the arguments of a finished
\* call: rank every row of the full index, keep the rows passing the filter,
\* stop at k; fewer than k survivors are returned as they are
C14_OverRetrieveAndFilter ==
    LET hits == FaissSearch(rt_args.index, Embed(rt_args.query),
                            Len(rt_args.metadata))
        kept == SelectSeq(hits, LAMBDA h :
                   C11_Passes(rt_args.metadata[h[1] + 1], rt_args.pdf_name,
                              rt_args.page_range))
    IN  [p \in 1..Min(rt_args.k, Len(kept)) |->
            LET meta == rt_args.metadata[kept[p][1] + 1]
            IN  [chunk |-> meta.chunk, source |-> meta.source,
                 page |-> meta.page, score |-> kept[p][2]]]

\* C14: a filtered call, which searches a temporary sub-index of the allowed
\* rows, returns the same ranked records as over-retrieve-and-filter for the
\* same query, filter and k: the k best-scoring rows among those passing the
\* filter, best first (stated for the calls whose filter keeps some rows but
\* not all and meets no missing page: those are the calls that search a
\* sub-index).  The sub-index search returns k pairs whatever the number of
\* allowed rows.
C14_StrategiesAgree ==
    (RtPlainCall /\ RtFiltered /\ RtPopulation >= 1
        /\ RtPopulation < Len(rt_args.metadata)) =>
        /\ rt_result.status = "ok"
        /\ rt_result.records = C14_OverRetrieveAndFilter

\* the handler of request r is running and has to build: its URL is not in
\* document_cache
ApiBuilding(r) ==
    /\ api_running = r
    /\ api_req[r].url \notin DOMAIN document_cache

\* C15: builds of different URLs proceed in parallel: while the handler of
\* one request is building the index of URL A, the handler of a request that
\* has arrived for a different uncached URL B can start, without waiting for
\* A's build to finish.  The handlers share one event loop and the build
\* never yields it.
C15_ParallelBuilds ==
    \A r1, r2 \in 1..Len(api_req) :
        (/\ ApiBuilding(r1)
         /\ r2 # r1
         /\ api_resp[r2] = NoResp
         /\ api_req[r2].url # api_req[r1].url
         /\ api_req[r2].url \notin DOMAIN document_cache) => ENABLED ApiBegin(r2)

\* C16: load_faiss_and_metadata returns an (index, metadata) pair only if
\* the index holds as many vectors as the metadata table has rows; a
\* mismatched pair on disk is rejected before it is used.  The function
\* reads the two files and returns them without comparing anything.
C16_LoadVerifiesAlignment ==
    (entry = "qa" /\ qa_pc # "idle") =>
        Len(qa_doc.index.vecs) = Len(qa_doc.chunks)

\* C18 (a question whose retrieval returns no chunk gets the canned
\* not-found answer and no generation call) has no formula here: no caller
\* ever receives an empty retrieval.  The question loops of
\* process_questions and process_api_request are not reached (no URL build
\* returns an index), and the retrieval call of interactive_qa raises
\* (QaAskTypeError).

\* C17 (the generation call of the n-th question of a request receives the
\* turns of the previous min(n - 1, 3) exchanges, then the context, then the
\* question) has no formula here: generate_answer_with_gpt is called from
\* the question loops of process_questions and process_api_request only,
\* and neither loop is reached.

\* the answers a question can get from the question loops: the completion
\* of the generation call made for that question, or the canned message
C19_AnswersOf(question) == {<<"gpt", question>>, NotFoundAnswer}

\* C19: whenever process_questions or process_api_request returns a result
\* for the questions q1..qn, the result has exactly n answers and the i-th
\* answer is the answer of qi; when the document build of process_api_request
\* fails, every question gets the text of the build error, and neither
\* retrieve_top_k_chunks nor generate_answer_with_gpt is called.
C19_OneAnswerPerQuestion ==
    /\ (entry = "pipeline" /\ pl_pc = "done") =>
          /\ Len(final_answers) = Len(pl_questions)
          /\ \A i \in 1..Len(final_answers) :
                /\ final_answers[i].question = pl_questions[i]
                /\ IF pl_doc.status = "ok"
                   THEN final_answers[i].answer \in C19_AnswersOf(pl_questions[i])
                   ELSE final_answers[i].answer = PlErrorText(pl_doc.status)
          /\ pl_doc.status = "ok" => pl_retrievals = Len(pl_questions)
          /\ pl_doc.status # "ok" => (pl_retrievals = 0 /\ pl_generations = 0)
    /\ \A r \in 1..Len(api_req) :
          (api_resp[r].status = 200 /\ api_resp[r].stage = "answer") =>
             /\ Len(api_resp[r].answers) = Len(api_req[r].questions)
             /\ \A i \in 1..Len(api_resp[r].answers) :
                   api_resp[r].answers[i] \in C19_AnswersOf(api_req[r].questions[i])

\* process_api_request has returned for three questions, not all the same,
\* on a document with text: the build raised AttributeError, and each
\* question, in order, has the error text as its answer
C19_Witness ==
    /\ entry = "pipeline"
    /\ pl_pc = "done"
    /\ pl_doc.status = "AttributeError"
    /\ Len(pl_questions) >= 3
    /\ pl_questions[1] # pl_questions[2]
    /\ Len(final_answers) = Len(pl_questions)
    /\ \A i \in 1..Len(final_answers) :
          final_answers[i] = [question |-> pl_questions[i],
                              answer |-> <<"error", "AttributeError">>]
    /\ pl_retrievals = 0
    /\ pl_generations = 0

====
